---- MODULE Spec2Model ----
(* Model of examples/densenet_inference_3d_array.py: the script assembles a  *)
(* dataset, a transform chain, a network, a supervised evaluator and three   *)
(* handlers, runs one evaluation over a parallel data loader and finalizes   *)
(* the prediction saver.                                                     *)
EXTENDS Integers, Sequences, FiniteSets, TLC

(* ------------------------------------------------------------------------ *)
(* Bounds                                                                     *)
(* ------------------------------------------------------------------------ *)

\* largest extent of one axis of a stored volume
MaxDim == 2

(* ------------------------------------------------------------------------ *)
(* Literal configuration of the script                                        *)
(* ------------------------------------------------------------------------ *)

images_dup ==
    << "IXI607", "IXI175", "IXI385", "IXI344", "IXI409",
       "IXI584", "IXI253", "IXI092", "IXI574", "IXI574" >>

images ==
    << "IXI607", "IXI175", "IXI385", "IXI344", "IXI409",
       "IXI584", "IXI253", "IXI092", "IXI574", "IXI585" >>

labels == << 0, 0, 1, 0, 1, 0, 1, 0, 1, 0 >>

NumSamples == Len(images)

val_transforms_resize_first == << "Rescale", "Resize", "AddChannel" >>

val_transforms == << "Rescale", "AddChannel", "Resize" >>

\* Resize((96, 96, 96))
ResizeEdge == 96
output_shape == << ResizeEdge, ResizeEdge, ResizeEdge >>

in_channels == 1
out_channels == 2

device == "cuda:0"

evaluator_device_none == "none"

\* create_supervised_evaluator(net, val_metrics, device, True, ...)
evaluator_device == device
non_blocking == TRUE

batch_size == 2
num_workers == 4

max_epochs_two == 2

\* evaluator.run(val_loader): max_epochs keeps its default
max_epochs == 1

\* index batches kept in flight per worker by the loader
prefetch == 2

NumBatches == (NumSamples + batch_size - 1) \div batch_size

Samples == 1..NumSamples
Batches == 1..NumBatches
Workers == 1..num_workers

(* ------------------------------------------------------------------------ *)
(* Files on disk                                                              *)
(* ------------------------------------------------------------------------ *)

\* intensity signature of the volume stored under each path
Voxels ==
    "IXI607" :> 1 @@ "IXI175" :> 2 @@ "IXI385" :> 3 @@ "IXI344" :> 4 @@
    "IXI409" :> 5 @@ "IXI584" :> 6 @@ "IXI253" :> 7 @@ "IXI092" :> 8 @@
    "IXI574" :> 9 @@ "IXI585" :> 10

Paths == DOMAIN Voxels

Missing == << >>

Dims == 1..MaxDim

Shapes3D == { << a, b, c >> : a \in Dims, b \in Dims, c \in Dims }

NominalShape == << MaxDim, MaxDim, MaxDim >>

\* what one path may hold: nothing, or a volume of some shape
FileContents ==
    Shapes3D \cup { Missing, << 1, MaxDim >>, << 1, 1, MaxDim, 1 >> }

(* ------------------------------------------------------------------------ *)
(* Transforms                                                                 *)
(* ------------------------------------------------------------------------ *)

\* an array: the file it was read from, the dataset index that asked for it,
\* its shape, whether its intensities were rescaled, and whether producing
\* it raised
Array(name, i, shape) ==
    [id |-> name, idx |-> i, shape |-> shape, rescaled |-> FALSE, ok |-> TRUE]

Failed(a) == [a EXCEPT !.ok = FALSE]

Rescale(a) == [a EXCEPT !.rescaled = TRUE]

AddChannel(a) == [a EXCEPT !.shape = << 1 >> \o a.shape]

Resize(a) ==
    IF Len(a.shape) = 1 + Len(output_shape)
    THEN [a EXCEPT !.shape = << a.shape[1] >> \o output_shape]
    ELSE Failed(a)

Apply(t, a) ==
    IF ~a.ok THEN a
    ELSE CASE t = "Rescale"    -> Rescale(a)
           [] t = "AddChannel" -> AddChannel(a)
           [] t = "Resize"     -> Resize(a)

RECURSIVE Compose(_, _)
Compose(ts, a) ==
    IF ts = << >> THEN a ELSE Compose(Tail(ts), Apply(Head(ts), a))

(* ------------------------------------------------------------------------ *)
(* State                                                                      *)
(* ------------------------------------------------------------------------ *)

VARIABLES
    disk,             \* environment: what each input path holds
    cuda_available,   \* environment: whether cuda:0 can be used
    ckpt_exists,      \* environment: whether the checkpoint file can be loaded
    pc,               \* position of the script (line about to execute)
    val_ds,           \* the NiftiDataset object
    net,              \* the DenseNet121: weights, device, mode
    event_handlers,   \* evaluator: event -> handlers in attachment order
    val_loader,       \* the DataLoader configuration
    state,            \* evaluator.state: epoch, iteration, batch, output
    ev,               \* event whose handlers are being fired
    hi,               \* index of the next handler to call for ev
    it,               \* the loader iterator: dispatched / received / produced
    metric,           \* Accuracy accumulators and computed value
    prediction_dict,  \* predictions kept by the ClassificationSaver
    tempdir,          \* contents of the output directory
    log,              \* number of records the StatsHandler wrote
    step_in,          \* what prepare_batch handed to the evaluation step
    loads,            \* number of checkpoint loads performed
    evals,            \* per sample: number of forward passes it went through
    grad_graphs,      \* forward passes that recorded an autograd graph
    failed            \* whether some step of the script raised

envVars == << disk, cuda_available, ckpt_exists >>
objVars == << val_ds, net, event_handlers, val_loader >>
engVars == << state, ev, hi, it >>
outVars == << metric, prediction_dict, tempdir, log >>
obsVars == << step_in, loads, evals, grad_graphs, failed >>

vars == << envVars, pc, objVars, engVars, outVars, obsVars >>

Events ==
    { "STARTED", "EPOCH_STARTED", "ITERATION_STARTED", "ITERATION_COMPLETED",
      "EPOCH_COMPLETED", "COMPLETED", "EXCEPTION_RAISED" }

(* ------------------------------------------------------------------------ *)
(* Dataset and loader                                                         *)
(* ------------------------------------------------------------------------ *)

NiftiDataset(image_files, lbls, transform, image_only) ==
    [image_files |-> image_files, labels |-> lbls,
     transform |-> transform, image_only |-> image_only]

Rotate(s) == IF s = << >> THEN s ELSE Append(Tail(s), Head(s))

val_ds_shifted == NiftiDataset(images, Rotate(labels), val_transforms, FALSE)

val_ds_init == NiftiDataset(images, labels, val_transforms, FALSE)

\* reading one path
load_nifti(name, i) ==
    IF disk[name] = Missing
    THEN Failed(Array(name, i, << >>))
    ELSE Array(name, i, disk[name])

\* NiftiDataset.__getitem__ with labels and image_only=False
getitem(ds, i) ==
    << Compose(ds.transform, load_nifti(ds.image_files[i], i)),
       ds.labels[i],
       [filename_or_obj |-> ds.image_files[i]] >>

\* dataset indices of index batch k (sequential sampler, drop_last=False)
BatchIndices(k) ==
    LET first == (k - 1) * batch_size + 1
        last  == IF k * batch_size < NumSamples THEN k * batch_size ELSE NumSamples
    IN  [ j \in 1..(last - first + 1) |-> first + j - 1 ]

Tensor(data) == [data |-> data, device |-> "cpu"]

\* default_collate over a list of (image, label, meta) samples
collate(items) ==
    << Tensor([ j \in DOMAIN items |-> items[j][1] ]),
       Tensor([ j \in DOMAIN items |-> items[j][2] ]),
       [filename_or_obj |-> [ j \in DOMAIN items |-> items[j][3].filename_or_obj ]] >>

\* what a worker produces for index batch k
fetch(k) ==
    collate([ j \in DOMAIN BatchIndices(k) |-> getitem(val_ds, BatchIndices(k)[j]) ])

\* the worker raised while producing the batch: a read or a transform failed,
\* or the transformed images cannot be stacked
BatchRaises(b) ==
    \/ \E j \in DOMAIN b[1].data : ~b[1].data[j].ok
    \/ \E j, l \in DOMAIN b[1].data : b[1].data[j].shape # b[1].data[l].shape

\* index batches go to the workers round-robin
worker_of(k) == ((k - 1) % num_workers) + 1

(* ------------------------------------------------------------------------ *)
(* Network and evaluation step                                                *)
(* ------------------------------------------------------------------------ *)

\* class scores of one image under the given weights
Logits(weights, a) ==
    IF weights = "checkpoint"
    THEN << (Voxels[a.id] * 7) % 5, (Voxels[a.id] * 3) % 5 >>
    ELSE << (Voxels[a.id] * 3) % 5, (Voxels[a.id] * 7) % 5 >>

\* the network accepts (B, in_channels, D, H, W) input on its own device
NetAccepts(x) ==
    /\ x.device = net.device
    /\ \A j \in DOMAIN x.data :
          Len(x.data[j].shape) = 4 /\ x.data[j].shape[1] = in_channels

densenet121(x) ==
    [data |-> [ j \in DOMAIN x.data |-> Logits(net.weights, x.data[j]) ],
     device |-> x.device]

convert_tensor(t, dev) ==
    IF dev = "none" \/ "device" \notin DOMAIN t THEN t ELSE [t EXCEPT !.device = dev]

\* ignite's _prepare_batch: unpack the pair and move both halves
_prepare_batch(batch, dev) ==
    << convert_tensor(batch[1], dev), convert_tensor(batch[2], dev) >>

prepare_batch_meta(batch, dev) == _prepare_batch(<< batch[1], batch[3] >>, dev)

prepare_batch(batch, dev) == _prepare_batch(<< batch[1], batch[2] >>, dev)

\* index (from 0) of the first largest entry
argmax(row) ==
    (CHOOSE c \in DOMAIN row :
        /\ \A d \in DOMAIN row : row[d] <= row[c]
        /\ \A d \in DOMAIN row : d < c => row[d] < row[c]) - 1

batch_transform(batch) == batch[3]

output_transform_labels(output) == output[2].data

\* lambda output: output[0].argmax(1)
output_transform(output) ==
    [ j \in DOMAIN output[1].data |-> argmax(output[1].data[j]) ]

IsLabelTensor(y) ==
    /\ "data" \in DOMAIN y
    /\ \A j \in DOMAIN y.data : y.data[j] \in 0..(out_channels - 1)

(* ------------------------------------------------------------------------ *)
(* Handlers: the events each one registers for                                *)
(* ------------------------------------------------------------------------ *)

Accuracy_events == { "EPOCH_STARTED", "ITERATION_COMPLETED", "EPOCH_COMPLETED" }

StatsHandler_events_exc ==
    { "ITERATION_COMPLETED", "EPOCH_COMPLETED", "EXCEPTION_RAISED" }

StatsHandler_events == { "ITERATION_COMPLETED", "EPOCH_COMPLETED" }

ClassificationSaver_events == { "ITERATION_COMPLETED" }

CheckpointLoader_events == { "STARTED" }

add_event_handler(eh, events, h) ==
    [ e \in Events |-> IF e \in events THEN Append(eh[e], h) ELSE eh[e] ]

NoBatch == << >>

(* ------------------------------------------------------------------------ *)
(* Initial state: the script has executed up to the device selection          *)
(* ------------------------------------------------------------------------ *)

Init ==
    /\ \E p \in Paths, c \in FileContents :
          disk = [ q \in Paths |-> IF q = p THEN c ELSE NominalShape ]
    /\ cuda_available \in BOOLEAN
    /\ ckpt_exists \in BOOLEAN
    /\ pc = "L74"
    /\ val_ds = val_ds_init
    /\ net = [weights |-> "random", device |-> "cpu", mode |-> "train"]
    /\ event_handlers = [ e \in Events |-> << >> ]
    /\ val_loader = [created |-> FALSE, pin_memory |-> FALSE]
    /\ state = [epoch |-> 0, iteration |-> 0, batch |-> NoBatch, output |-> NoBatch]
    /\ ev = "none"
    /\ hi = 0
    /\ it = [active |-> FALSE, send_idx |-> 1, rcvd_idx |-> 1, done |-> {}]
    /\ metric = [num_correct |-> 0, num_examples |-> 0, computed |-> FALSE]
    /\ prediction_dict = << >>
    /\ tempdir = {}
    /\ log = 0
    /\ step_in = NoBatch
    /\ loads = 0
    /\ evals = [ i \in Samples |-> 0 ]
    /\ grad_graphs = 0
    /\ failed = FALSE

(* ------------------------------------------------------------------------ *)
(* Engine plumbing                                                            *)
(* ------------------------------------------------------------------------ *)

Fire(e) == pc' = "fire" /\ ev' = e /\ hi' = 1

Firing(e, h) ==
    /\ pc = "fire"
    /\ ev = e
    /\ hi <= Len(event_handlers[e])
    /\ event_handlers[e][hi] = h

Fired_early(e) == pc = "fire" /\ ev = e

\* every handler registered for e has been called
Fired(e) == pc = "fire" /\ ev = e /\ hi > Len(event_handlers[e])

\* Engine._handle_exception: the exception goes to the EXCEPTION_RAISED
\* handlers when there are any, and is re-raised otherwise.  A handled
\* exception ends the pass over the data (inEpoch) or the run.
HandleException(inEpoch) ==
    /\ failed' = TRUE
    /\ IF event_handlers["EXCEPTION_RAISED"] = << >>
       THEN pc' = "crashed" /\ ev' = "none" /\ hi' = 0 /\ log' = log
       ELSE /\ log' = log + Len(event_handlers["EXCEPTION_RAISED"])
            /\ IF inEpoch
               THEN Fire("EPOCH_COMPLETED")
               ELSE pc' = "L93" /\ ev' = "none" /\ hi' = 0

(* ------------------------------------------------------------------------ *)
(* The script, line by line                                                   *)
(* ------------------------------------------------------------------------ *)

\* line 74: create_supervised_evaluator moves the model to the device and
\* attaches the metrics
CreateEvaluator ==
    /\ pc = "L74"
    /\ IF evaluator_device # "none" /\ ~cuda_available
       THEN /\ pc' = "crashed"
            /\ failed' = TRUE
            /\ UNCHANGED << net, event_handlers >>
       ELSE /\ pc' = "L79"
            /\ net' = IF evaluator_device # "none"
                      THEN [net EXCEPT !.device = evaluator_device]
                      ELSE net
            /\ event_handlers' =
                  add_event_handler(event_handlers, Accuracy_events, "Accuracy")
            /\ UNCHANGED failed
    /\ UNCHANGED << envVars, val_ds, val_loader, engVars, outVars,
                    step_in, loads, evals, grad_graphs >>

\* line 79
AttachStatsHandler ==
    /\ pc = "L79"
    /\ pc' = "L84"
    /\ event_handlers' =
          add_event_handler(event_handlers, StatsHandler_events, "StatsHandler")
    /\ UNCHANGED << envVars, val_ds, net, val_loader, engVars, outVars, obsVars >>

\* line 84
AttachPredictionSaver ==
    /\ pc = "L84"
    /\ pc' = "L87"
    /\ event_handlers' =
          add_event_handler(event_handlers, ClassificationSaver_events,
                            "ClassificationSaver")
    /\ UNCHANGED << envVars, val_ds, net, val_loader, engVars, outVars, obsVars >>

AttachCheckpointLoader_skipped ==
    /\ pc = "L87"
    /\ pc' = "L90"
    /\ UNCHANGED << envVars, objVars, engVars, outVars, obsVars >>

\* line 87
AttachCheckpointLoader ==
    /\ pc = "L87"
    /\ pc' = "L90"
    /\ event_handlers' =
          add_event_handler(event_handlers, CheckpointLoader_events,
                            "CheckpointLoader")
    /\ UNCHANGED << envVars, val_ds, net, val_loader, engVars, outVars, obsVars >>

\* line 90
CreateLoader ==
    /\ pc = "L90"
    /\ pc' = "L92"
    /\ val_loader' = [created |-> TRUE, pin_memory |-> cuda_available]
    /\ UNCHANGED << envVars, val_ds, net, event_handlers, engVars, outVars, obsVars >>

\* line 92: Engine.run sets up a fresh state and fires STARTED
Run ==
    /\ pc = "L92"
    /\ state' = [epoch |-> 0, iteration |-> 0, batch |-> NoBatch, output |-> NoBatch]
    /\ Fire("STARTED")
    /\ UNCHANGED << envVars, objVars, it, outVars, obsVars >>

\* CheckpointLoader.__call__ on STARTED
LoadCheckpoint ==
    /\ Firing("STARTED", "CheckpointLoader")
    /\ IF ckpt_exists
       THEN /\ net' = [net EXCEPT !.weights = "checkpoint"]
            /\ loads' = loads + 1
            /\ hi' = hi + 1
            /\ UNCHANGED << pc, ev, log, failed >>
       ELSE /\ HandleException(FALSE)
            /\ UNCHANGED << net, loads >>
    /\ UNCHANGED << envVars, val_ds, event_handlers, val_loader, state, it,
                    metric, prediction_dict, tempdir,
                    step_in, evals, grad_graphs >>

\* the while loop of Engine.run
EpochLoop ==
    /\ Fired("STARTED") \/ Fired("EPOCH_COMPLETED")
    /\ IF state.epoch < max_epochs
       THEN /\ state' = [state EXCEPT !.epoch = @ + 1]
            /\ Fire("EPOCH_STARTED")
       ELSE /\ Fire("COMPLETED")
            /\ UNCHANGED state
    /\ UNCHANGED << envVars, objVars, it, outVars, obsVars >>

\* Accuracy.started
MetricReset ==
    /\ Firing("EPOCH_STARTED", "Accuracy")
    /\ metric' = [num_correct |-> 0, num_examples |-> 0, computed |-> FALSE]
    /\ hi' = hi + 1
    /\ UNCHANGED << envVars, pc, objVars, state, ev, it,
                    prediction_dict, tempdir, log, obsVars >>

\* iter(val_loader): the workers start and the first index batches go out
CreateIterator ==
    /\ Fired("EPOCH_STARTED")
    /\ pc' = "iter"
    /\ ev' = "none"
    /\ hi' = 0
    /\ it' = [active |-> TRUE,
              send_idx |-> IF prefetch * num_workers < NumBatches
                           THEN prefetch * num_workers + 1
                           ELSE NumBatches + 1,
              rcvd_idx |-> 1,
              done |-> {}]
    /\ UNCHANGED << envVars, objVars, state, outVars, obsVars >>

\* one worker produces the oldest index batch it was given
WorkerFetch(w) ==
    /\ it.active
    /\ pc # "crashed"
    /\ \E k \in Batches :
          /\ worker_of(k) = w
          /\ k < it.send_idx
          /\ k \notin it.done
          /\ \A l \in Batches :
                (worker_of(l) = w /\ l < k) => l \in it.done
          /\ it' = [it EXCEPT !.done = @ \cup {k}]
    /\ UNCHANGED << envVars, pc, objVars, state, ev, hi, outVars, obsVars >>

\* next(iterator) returns the batch with the next index, once produced
NextBatch ==
    /\ pc = "iter"
    /\ it.rcvd_idx <= NumBatches
    /\ it.rcvd_idx \in it.done
    /\ ~BatchRaises(fetch(it.rcvd_idx))
    /\ state' = [state EXCEPT !.batch = fetch(it.rcvd_idx), !.iteration = @ + 1]
    /\ it' = [it EXCEPT !.rcvd_idx = @ + 1,
                        !.send_idx = IF @ <= NumBatches THEN @ + 1 ELSE @]
    /\ Fire("ITERATION_STARTED")
    /\ UNCHANGED << envVars, objVars, outVars, obsVars >>

\* next(iterator) re-raises what the worker raised for that batch
BatchError ==
    /\ pc = "iter"
    /\ it.rcvd_idx <= NumBatches
    /\ it.rcvd_idx \in it.done
    /\ BatchRaises(fetch(it.rcvd_idx))
    /\ it' = [it EXCEPT !.active = FALSE]
    /\ HandleException(TRUE)
    /\ UNCHANGED << envVars, objVars, state, metric, prediction_dict, tempdir,
                    step_in, loads, evals, grad_graphs >>

\* the iterator is exhausted
EndOfData ==
    /\ pc = "iter"
    /\ it.rcvd_idx > NumBatches
    /\ it' = [it EXCEPT !.active = FALSE]
    /\ Fire("EPOCH_COMPLETED")
    /\ UNCHANGED << envVars, objVars, state, outVars, obsVars >>

\* torch.no_grad() wraps the forward pass of the evaluation step
no_grad == TRUE

\* the evaluator's process function (_inference) on the current batch
Process ==
    /\ Fired("ITERATION_STARTED")
    /\ LET xy == prepare_batch(state.batch, evaluator_device)
       IN  /\ step_in' = xy
           /\ net' = [net EXCEPT !.mode = "eval"]
           /\ IF NetAccepts(xy[1])
              THEN /\ state' = [state EXCEPT !.output = << densenet121(xy[1]), xy[2] >>]
                   /\ evals' = [ i \in Samples |->
                                   evals[i] + Cardinality({ j \in DOMAIN xy[1].data :
                                                              xy[1].data[j].idx = i }) ]
                   /\ grad_graphs' = grad_graphs + (IF no_grad THEN 0 ELSE 1)
                   /\ Fire("ITERATION_COMPLETED")
                   /\ UNCHANGED << log, failed >>
              ELSE /\ HandleException(TRUE)
                   /\ UNCHANGED << state, evals, grad_graphs >>
    /\ UNCHANGED << envVars, val_ds, event_handlers, val_loader, it,
                    metric, prediction_dict, tempdir, loads >>

\* Accuracy.iteration_completed: update with (y_pred, y) = state.output
MetricUpdate ==
    /\ Firing("ITERATION_COMPLETED", "Accuracy")
    /\ LET y_pred == state.output[1]
           y      == state.output[2]
       IN  IF IsLabelTensor(y)
           THEN /\ metric' =
                     [metric EXCEPT
                        !.num_correct = @ + Cardinality({ j \in DOMAIN y.data :
                                               argmax(y_pred.data[j]) = y.data[j] }),
                        !.num_examples = @ + Len(y.data)]
                /\ hi' = hi + 1
                /\ UNCHANGED << pc, ev, log, failed >>
           ELSE /\ HandleException(TRUE)
                /\ UNCHANGED metric
    /\ UNCHANGED << envVars, objVars, state, it, prediction_dict, tempdir,
                    step_in, loads, evals, grad_graphs >>

\* StatsHandler.iteration_completed
StatsIteration ==
    /\ Firing("ITERATION_COMPLETED", "StatsHandler")
    /\ log' = log + 1
    /\ hi' = hi + 1
    /\ UNCHANGED << envVars, pc, objVars, state, ev, it,
                    metric, prediction_dict, tempdir, obsVars >>

\* ClassificationSaver.__call__: keep the prediction of every file of the batch
SavePredictions ==
    /\ Firing("ITERATION_COMPLETED", "ClassificationSaver")
    /\ LET meta_data     == batch_transform(state.batch)
           filenames     == meta_data.filename_or_obj
           engine_output == output_transform(state.output)
           last(f)       == CHOOSE j \in DOMAIN filenames :
                               /\ filenames[j] = f
                               /\ \A l \in DOMAIN filenames :
                                     filenames[l] = f => l <= j
           names         == { filenames[j] : j \in DOMAIN filenames }
       IN  prediction_dict' =
              [ f \in names \cup DOMAIN prediction_dict |->
                  IF f \in names THEN engine_output[last(f)] ELSE prediction_dict[f] ]
    /\ hi' = hi + 1
    /\ UNCHANGED << envVars, pc, objVars, state, ev, it,
                    metric, tempdir, log, obsVars >>

\* every ITERATION_COMPLETED handler returned: back to the top of the loop
IterationDone ==
    /\ Fired("ITERATION_COMPLETED")
    /\ pc' = "iter"
    /\ ev' = "none"
    /\ hi' = 0
    /\ UNCHANGED << envVars, objVars, state, it, outVars,
                    step_in, loads, evals, grad_graphs, failed >>

\* Accuracy.completed: compute() needs at least one example
MetricCompute ==
    /\ Firing("EPOCH_COMPLETED", "Accuracy")
    /\ IF metric.num_examples > 0
       THEN /\ metric' = [metric EXCEPT !.computed = TRUE]
            /\ hi' = hi + 1
            /\ UNCHANGED << pc, ev, log, failed >>
       ELSE /\ HandleException(FALSE)
            /\ UNCHANGED metric
    /\ UNCHANGED << envVars, objVars, state, it, prediction_dict, tempdir,
                    step_in, loads, evals, grad_graphs >>

\* StatsHandler.epoch_completed
StatsEpoch ==
    /\ Firing("EPOCH_COMPLETED", "StatsHandler")
    /\ log' = log + 1
    /\ hi' = hi + 1
    /\ UNCHANGED << envVars, pc, objVars, state, ev, it,
                    metric, prediction_dict, tempdir, obsVars >>

\* COMPLETED fired: evaluator.run returns the state
RunReturns ==
    /\ Fired("COMPLETED")
    /\ pc' = "L93"
    /\ ev' = "none"
    /\ hi' = 0
    /\ UNCHANGED << envVars, objVars, state, it, outVars, obsVars >>

\* line 93: prediction_saver.finalize() writes what the saver kept
Finalize ==
    /\ pc = "L93"
    /\ pc' = "done"
    /\ tempdir' = tempdir \cup
          { [name |-> f, prediction |-> prediction_dict[f]] :
              f \in DOMAIN prediction_dict }
    /\ UNCHANGED << envVars, objVars, engVars, metric, prediction_dict, log, obsVars >>

(* ------------------------------------------------------------------------ *)
(* Specification                                                              *)
(* ------------------------------------------------------------------------ *)

Main ==
    \/ CreateEvaluator
    \/ AttachStatsHandler
    \/ AttachPredictionSaver
    \/ AttachCheckpointLoader
    \/ CreateLoader
    \/ Run
    \/ LoadCheckpoint
    \/ EpochLoop
    \/ MetricReset
    \/ CreateIterator
    \/ NextBatch
    \/ BatchError
    \/ EndOfData
    \/ Process
    \/ MetricUpdate
    \/ StatsIteration
    \/ SavePredictions
    \/ IterationDone
    \/ MetricCompute
    \/ StatsEpoch
    \/ RunReturns
    \/ Finalize

Next == Main \/ \E w \in Workers : WorkerFetch(w)

Spec == Init /\ [][Next]_vars

\* the main process and every worker process keep being scheduled
FairSpec == Spec /\ WF_vars(Main) /\ \A w \in Workers : WF_vars(WorkerFetch(w))

TypeOK ==
    /\ pc \in { "L74", "L79", "L84", "L87", "L90", "L92", "fire", "iter",
                "L93", "done", "crashed" }
    /\ state.iteration \in 0..(NumBatches * max_epochs)
    /\ it.rcvd_idx \in 1..(NumBatches + 1)

(* ------------------------------------------------------------------------ *)
(* Properties                                                                 *)
(* ------------------------------------------------------------------------ *)

\* every input path holds a 3D volume, the device and the checkpoint exist
AllAvailable ==
    /\ cuda_available
    /\ ckpt_exists
    /\ \A p \in Paths : disk[p] \in Shapes3D

\* the class the loaded network assigns to the volume stored under path f
ExpectedClass(f) == argmax(Logits("checkpoint", [id |-> f]))

\* number of samples in the first n index batches
SamplesIn(n) == IF n * batch_size < NumSamples THEN n * batch_size ELSE NumSamples

TransformedShape == << 1, 96, 96, 96 >>

\* C1: with the checkpoint, the device and all input files available and
\* well-shaped, the script eventually ends without an error and tempdir then
\* holds one saved artifact per input sample (10 of them).
C1_RunCompletesWithOneFilePerSample ==
    AllAvailable =>
        <>( /\ pc = "done"
            /\ ~failed
            /\ Cardinality(tempdir) = NumSamples
            /\ \A i \in Samples : \E a \in tempdir : a.name = images[i] )

C1_Witness ==
    /\ AllAvailable
    /\ pc = "done"
    /\ Cardinality(tempdir) = 10

\* C2: the checkpoint is loaded once, before the first batch is forwarded,
\* although CheckpointLoader is attached last; once loaded, no step changes
\* the weights.
C2_LoadedOnceBeforeFirstForward ==
    /\ [](loads <= 1)
    /\ [](state.epoch >= 1 => (loads = 1 /\ net.weights = "checkpoint"))
    /\ []((step_in # NoBatch \/ \E i \in Samples : evals[i] > 0)
             => (loads = 1 /\ net.weights = "checkpoint"))
    /\ [][loads >= 1 => net'.weights = net.weights]_vars

C2_Witness ==
    /\ loads = 1
    /\ event_handlers["STARTED"] = << "CheckpointLoader" >>
    /\ event_handlers["ITERATION_COMPLETED"] =
          << "Accuracy", "StatsHandler", "ClassificationSaver" >>
    /\ \A i \in Samples : evals[i] = 1

\* C3: with cuda:0 unavailable the script fails before any batch is
\* processed, and nothing has been written to the output directory.
C3_UnavailableDeviceFailsFirst ==
    ~cuda_available =>
        /\ pc = "L74" \/ (pc = "crashed" /\ failed)
        /\ state.iteration = 0
        /\ ~it.active
        /\ it.done = {}
        /\ step_in = NoBatch
        /\ DOMAIN prediction_dict = {}
        /\ tempdir = {}

C3_Witness ==
    /\ ~cuda_available
    /\ pc = "crashed"
    /\ tempdir = {}

\* C4: prepare_batch hands the evaluation step exactly the pair built from
\* batch[0] and batch[1]; the meta item reaches neither the step nor the
\* metric.
C4_PrepareBatchDropsMeta ==
    /\ (pc = "fire" /\ ev = "ITERATION_COMPLETED") =>
          /\ Len(step_in) = 2
          /\ step_in[1] = [data |-> state.batch[1].data, device |-> device]
          /\ step_in[2] = [data |-> state.batch[2].data, device |-> device]
          /\ state.output[2] = step_in[2]
    /\ step_in # NoBatch =>
          \A j \in DOMAIN step_in : "filename_or_obj" \notin DOMAIN step_in[j]
    /\ state.output # NoBatch =>
          \A j \in DOMAIN state.output :
              "filename_or_obj" \notin DOMAIN state.output[j]

C4_Witness ==
    /\ pc = "fire"
    /\ ev = "ITERATION_COMPLETED"
    /\ state.iteration = 3
    /\ Len(state.batch) = 3
    /\ Len(step_in) = 2

\* C5: every prediction the saver keeps, and every artifact it writes, is
\* recorded under the file of the sample it was computed from.
C5_PredictionsKeepFileIdentity ==
    /\ \A f \in DOMAIN prediction_dict :
          /\ \E i \in Samples : images[i] = f
          /\ prediction_dict[f] = ExpectedClass(f)
    /\ \A a \in tempdir :
          /\ \E i \in Samples : images[i] = a.name
          /\ a.prediction = ExpectedClass(a.name)
    /\ (pc = "fire" /\ ev = "ITERATION_COMPLETED" /\ hi > 3) =>
          \A j \in DOMAIN state.batch[3].filename_or_obj :
              /\ state.batch[3].filename_or_obj[j] = state.batch[1].data[j].id
              /\ state.batch[3].filename_or_obj[j] \in DOMAIN prediction_dict

C5_Witness ==
    /\ pc = "fire"
    /\ ev = "ITERATION_COMPLETED"
    /\ hi > 3
    /\ state.iteration = 2
    /\ Cardinality(DOMAIN prediction_dict) = 4

\* C6: the chain runs Rescale, AddChannel, Resize((96, 96, 96)) in that order
\* on every sample before batching, and turns any 3D volume into an array of
\* shape (1, 96, 96, 96).
C6_TransformChainShape ==
    /\ val_ds.transform = << "Rescale", "AddChannel", "Resize" >>
    /\ \A i \in Samples :
          disk[images[i]] \in Shapes3D =>
              LET a == getitem(val_ds, i)[1]
              IN  a.ok /\ a.rescaled /\ a.shape = TransformedShape
    /\ state.batch # NoBatch =>
          \A j \in DOMAIN state.batch[1].data :
              /\ state.batch[1].data[j].rescaled
              /\ state.batch[1].data[j].shape = TransformedShape

C6_Witness ==
    /\ state.batch # NoBatch
    /\ \E j \in DOMAIN state.batch[1].data :
          /\ disk[state.batch[1].data[j].id] # NominalShape
          /\ state.batch[1].data[j].shape = TransformedShape

\* C7: sample i pairs images[i] with labels[i] for every one of the 10
\* indices, and the sample list is never modified.
C7_SamplesPairedAndImmutable ==
    /\ [](/\ Len(val_ds.image_files) = 10
          /\ Len(val_ds.labels) = 10
          /\ \A i \in Samples :
                /\ val_ds.image_files[i] = images[i]
                /\ val_ds.labels[i] = labels[i]
                /\ getitem(val_ds, i)[1].id = images[i]
                /\ getitem(val_ds, i)[2] = labels[i]
                /\ getitem(val_ds, i)[3].filename_or_obj = images[i]
          /\ state.batch # NoBatch =>
                \A j \in DOMAIN state.batch[1].data :
                    LET i == state.batch[1].data[j].idx
                    IN  /\ state.batch[1].data[j].id = images[i]
                        /\ state.batch[2].data[j] = labels[i]
                        /\ state.batch[3].filename_or_obj[j] = images[i])
    /\ [][val_ds' = val_ds]_vars

C7_Witness ==
    /\ state.iteration = NumBatches
    /\ state.batch # NoBatch
    /\ state.batch[2].data = << 1, 0 >>
    /\ state.batch[3].filename_or_obj = << "IXI574", "IXI585" >>

\* every ITERATION_COMPLETED handler has seen the first n batches
HandlersRanFor(n) ==
    /\ metric.num_examples = SamplesIn(n)
    /\ Cardinality(DOMAIN prediction_dict) = SamplesIn(n)
    /\ log = n

\* C8: while the workers run ahead, the evaluator takes one batch at a time:
\* a batch is requested only after the previous one was forwarded to the
\* device, processed, and seen by all its handlers.
C8_OneBatchAtATime ==
    /\ [](pc = "iter" => (HandlersRanFor(state.iteration)
                          /\ (state.iteration > 0 =>
                                 /\ step_in[1].device = device
                                 /\ step_in[1].data = state.batch[1].data)))
    /\ [][state'.iteration # state.iteration =>
             /\ pc = "iter"
             /\ state'.iteration = state.iteration + 1
             /\ HandlersRanFor(state.iteration)]_vars

C8_Witness ==
    /\ pc = "fire"
    /\ ev = "ITERATION_COMPLETED"
    /\ state.iteration = 1
    /\ Cardinality(it.done) = NumBatches

\* C9: one run is a single pass: every sample is evaluated exactly once, in
\* 5 batches of 2, with no second epoch and no gradient computation.
C9_SinglePass ==
    /\ \A i \in Samples : evals[i] <= 1
    /\ state.epoch <= 1
    /\ state.iteration <= 5
    /\ grad_graphs = 0
    /\ state.batch # NoBatch => Len(state.batch[1].data) = 2
    /\ step_in # NoBatch => net.mode = "eval"
    /\ (pc \in { "L93", "done" } /\ ~failed) =>
          /\ \A i \in Samples : evals[i] = 1
          /\ state.iteration = 5
          /\ state.epoch = 1

C9_Witness ==
    /\ pc = "L93"
    /\ state.iteration = 5
    /\ \A i \in Samples : evals[i] = 1

\* C10: a failure of any step ends the script with an unhandled error:
\* nothing runs afterwards (no retry, no later batch, no finalize), and the
\* script reaches its end only when nothing was missing or ill-shaped.
C10_FailureTerminatesScript ==
    /\ [](failed => (pc = "crashed" /\ tempdir = {}))
    /\ [](pc \in { "L93", "done" } => (~failed /\ AllAvailable))
    /\ [][failed => UNCHANGED vars]_vars

C10_Witness ==
    /\ failed
    /\ pc = "crashed"
    /\ state.iteration = 2
    /\ Cardinality(DOMAIN prediction_dict) = 4
    /\ tempdir = {}

====
